---------------------------- MODULE Spec2Model ----------------------------
(***************************************************************************)
(* Model of src/assignment_app.py, the "Lebanon Tourism Explorer".         *)
(*                                                                         *)
(* The program is a Streamlit script: every user interaction re-runs the   *)
(* script from its first line to its last (or to st.stop(), or to an       *)
(* uncaught exception).  One run is modelled as the sequence of steps      *)
(*   LoadData -> Sidebar -> ApplyFilters -> Guard -> KPIRow -> BarChart    *)
(*            -> ScatterPlot -> Download                                   *)
(* and Rerun starts the next interaction.  The only state that survives a  *)
(* run is the st.cache_data cache of load_data and the module-level        *)
(* HAS_SM flag.                                                            *)
(*                                                                         *)
(* Text is a sequence of one-character strings.  Numbers are fixed-point   *)
(* integers counting tenths (25 is 2.5), so that a cell such as "2.5" and  *)
(* the int() conversions of the script keep their meaning.                 *)
(***************************************************************************)
EXTENDS Integers, Sequences, FiniteSets, TLC

\* Largest number of data rows of the remote CSV file.
MaxRows == 2

\* Largest number of pd.read_csv calls the model follows.
MaxFetches == 2

-----------------------------------------------------------------------------
(* Text helpers *)

Range(s) == { s[i] : i \in 1..Len(s) }

\* Code points, for Python's str comparison (used when sorting by Town).
Ord(c) ==
    CASE c = " " -> 32
      [] c = "-" -> 45
      [] c = "." -> 46
      [] c = "0" -> 48
      [] c = "1" -> 49
      [] c = "2" -> 50
      [] c = "5" -> 53
      [] c = "7" -> 55
      [] c = "A" -> 65
      [] c = "N" -> 78
      [] c = "a" -> 97
      [] c = "b" -> 98
      [] c = "x" -> 120
      [] c = "z" -> 122
      [] OTHER   -> 0

IsSpace(c) == c \in {" ", "\t"}

RECURSIVE LStrip(_)
LStrip(s) ==
    IF s # <<>> /\ IsSpace(Head(s)) THEN LStrip(Tail(s)) ELSE s

RECURSIVE RStrip(_)
RStrip(s) ==
    IF s # <<>> /\ IsSpace(s[Len(s)]) THEN RStrip(SubSeq(s, 1, Len(s) - 1)) ELSE s

\* str.strip(): leading and trailing whitespace removed, inner kept.
StrStrip(s) == RStrip(LStrip(s))

\* Python's < on str: lexicographic by code point, a proper prefix first.
RECURSIVE StrLess(_, _)
StrLess(s, t) ==
    IF t = <<>> THEN FALSE
    ELSE IF s = <<>> THEN TRUE
    ELSE IF Ord(Head(s)) # Ord(Head(t)) THEN Ord(Head(s)) < Ord(Head(t))
    ELSE StrLess(Tail(s), Tail(t))

-----------------------------------------------------------------------------
(* Numeric parsing: pd.to_numeric(errors="coerce") on one cell *)

Digits == {"0", "1", "2", "3", "4", "5", "6", "7", "8", "9"}

DigitVal(c) ==
    CASE c = "0" -> 0 [] c = "1" -> 1 [] c = "2" -> 2 [] c = "3" -> 3
      [] c = "4" -> 4 [] c = "5" -> 5 [] c = "6" -> 6 [] c = "7" -> 7
      [] c = "8" -> 8 [] c = "9" -> 9

AllDigits(s) == \A i \in 1..Len(s) : s[i] \in Digits

RECURSIVE DigitsVal(_)
DigitsVal(s) ==
    IF s = <<>> THEN 0
    ELSE 10 * DigitsVal(SubSeq(s, 1, Len(s) - 1)) + DigitVal(s[Len(s)])

NaN == [na |-> TRUE, n |-> 0]

Num(v) == [na |-> FALSE, n |-> v]

\* An unsigned decimal literal "12", "12.5", "12." or ".5", in tenths.  The
\* model's cells carry at most one fractional digit.
ParseUnsigned(s) ==
    LET dots == { i \in 1..Len(s) : s[i] = "." } IN
    IF dots = {} THEN
        IF s # <<>> /\ AllDigits(s) THEN Num(10 * DigitsVal(s)) ELSE NaN
    ELSE IF Cardinality(dots) > 1 THEN NaN
    ELSE
        LET p    == CHOOSE i \in dots : TRUE
            ip   == SubSeq(s, 1, p - 1)
            fp   == SubSeq(s, p + 1, Len(s))
        IN  IF AllDigits(ip) /\ AllDigits(fp) /\ Len(ip) + Len(fp) > 0 /\ Len(fp) <= 1
            THEN Num(10 * DigitsVal(ip) + DigitsVal(fp))
            ELSE NaN

\* The value of a text cell as a number, NaN when it is not a number.
ParseNumeric(s) ==
    LET t == StrStrip(s) IN
    IF t = <<>> THEN NaN
    ELSE IF Head(t) = "-" THEN
        LET u == ParseUnsigned(Tail(t)) IN
        IF u.na THEN NaN ELSE Num(0 - u.n)
    ELSE IF Head(t) = "+" THEN ParseUnsigned(Tail(t))
    ELSE ParseUnsigned(t)

\* Python's int() on a float: truncation toward zero, in whole units.
IntOf(v) == IF v >= 0 THEN v \div 10 ELSE 0 - ((0 - v) \div 10)

-----------------------------------------------------------------------------
(* The remote CSV file *)

DATA_URL == "https://linked.aub.edu.lb/pkgcube/data/551015b5649368dd2612f795c2a9c2d8_20240902_115953.csv"

TOWN == "Town"
HOTELS == "Total number of hotels"
RESTAURANTS == "Total number of restaurants"
TOURISM == "Tourism Index"
\* A column of the file the script never names.
EXTRA == "Region"

AllCols == {TOWN, HOTELS, RESTAURANTS, TOURISM, EXTRA}

RawRow(t, h, r, x) ==
    [c \in AllCols |->
        CASE c = TOWN -> t
          [] c = HOTELS -> h
          [] c = RESTAURANTS -> r
          [] c = TOURISM -> x
          [] OTHER -> <<"z">>]

\* The lines a file may hold: clean rows (a repeated town, a tie on hotels,
\* a fractional hotel count, towns padded with blanks), a town of blanks
\* only, and rows with a blank, missing or non-numeric critical field.
RawRows ==
    { RawRow(<<"a">>,      <<"1">>,           <<"1">>, <<"5">>),
      RawRow(<<" ", "a">>, <<"2", ".", "5">>, <<"2">>, <<"7">>),
      RawRow(<<"b">>,      <<"1">>,           <<"2">>, <<"7">>),
      RawRow(<<"b", " ">>, <<"3">>,           <<"1">>, <<"5">>),
      RawRow(<<" ">>,      <<"1">>,           <<"1">>, <<"5">>),
      RawRow(<<>>,         <<"1">>,           <<"1">>, <<"5">>),
      RawRow(<<"N", "A">>, <<"1">>,           <<"1">>, <<"5">>),
      RawRow(<<"b">>,      <<>>,              <<"2">>, <<"5">>),
      RawRow(<<"a">>,      <<"1">>,           <<"x">>, <<"5">>),
      RawRow(<<"b">>,      <<"2">>,           <<"1">>, <<>>) }

\* The header rows a file may have: the four columns alone, the four columns
\* in another order with an additional column, and a file lacking a column.
Headers ==
    { <<TOWN, HOTELS, RESTAURANTS, TOURISM>>,
      <<EXTRA, HOTELS, TOWN, TOURISM, RESTAURANTS>>,
      <<TOWN, HOTELS, RESTAURANTS>> }

RowSeqs == UNION { [1..n -> RawRows] : n \in 0..MaxRows }

RawTables == [header : Headers, rows : RowSeqs]

-----------------------------------------------------------------------------
(* DataFrame operations.  A frame is [columns, rows]; a row is [idx, c]:    *)
(* its index label and its cells by column name.  A text cell is [na, s],  *)
(* a numeric cell [na, n].                                                 *)

EmptyFrame == [columns |-> <<>>, rows |-> <<>>]

\* Cell texts pd.read_csv reads as missing (of its default na_values).
NaValues == { <<>>, <<"N", "A">>, <<"N", "a", "N">> }

\* pd.read_csv(url): one row per line, labelled 0, 1, ..., with the file's
\* columns in the file's order.
ReadCsv(table) ==
    [columns |-> table.header,
     rows    |-> [i \in 1..Len(table.rows) |->
                    [idx |-> i - 1,
                     c   |-> [col \in Range(table.header) |->
                                [na |-> table.rows[i][col] \in NaValues,
                                 s  |-> table.rows[i][col]]]]]]

\* rename_map of load_data: every expected column to its own name.
RenameCol(col) ==
    CASE col = HOTELS -> HOTELS
      [] col = RESTAURANTS -> RESTAURANTS
      [] col = TOURISM -> TOURISM
      [] col = TOWN -> TOWN
      [] OTHER -> col

\* df.rename(columns=rename_map)
Rename(df) ==
    [columns |-> [i \in 1..Len(df.columns) |-> RenameCol(df.columns[i])],
     rows    |-> [i \in 1..Len(df.rows) |->
                    [idx |-> df.rows[i].idx,
                     c   |-> [col \in { RenameCol(k) : k \in Range(df.columns) } |->
                                df.rows[i].c[CHOOSE k \in Range(df.columns) :
                                                RenameCol(k) = col]]]]]

\* df[col] = pd.to_numeric(df[col], errors="coerce")
ToNumeric(df, col) ==
    [df EXCEPT !.rows =
        [i \in 1..Len(df.rows) |->
            [df.rows[i] EXCEPT !.c[col] =
                IF @.na THEN NaN ELSE ParseNumeric(@.s)]]]

\* The loop of load_data over the three numeric columns, each converted
\* only if the frame has it.
RECURSIVE EnsureNumeric(_, _)
EnsureNumeric(df, cols) ==
    IF cols = <<>> THEN df
    ELSE EnsureNumeric(
            IF Head(cols) \in Range(df.columns) THEN ToNumeric(df, Head(cols)) ELSE df,
            Tail(cols))

\* df.dropna(subset=...): the rows with no missing value in the subset, in
\* order, keeping their labels.
DropNa(df, subset) ==
    [df EXCEPT !.rows =
        SelectSeq(df.rows, LAMBDA r : \A col \in subset : ~r.c[col].na)]

\* df["Town"].astype(str).str.strip()
CleanTown(df) ==
    [df EXCEPT !.rows =
        [i \in 1..Len(df.rows) |->
            [df.rows[i] EXCEPT !.c[TOWN] = [na |-> FALSE, s |-> StrStrip(@.s)]]]]

CriticalFields == {TOWN, HOTELS, RESTAURANTS, TOURISM}

\* The body of load_data: [ok, df].  ok is FALSE when dropna raises KeyError
\* because the file lacks one of the four columns.
load_data(table) ==
    LET df1 == Rename(ReadCsv(table))
        df2 == EnsureNumeric(df1, <<HOTELS, RESTAURANTS, TOURISM>>)
    IN  IF ~(CriticalFields \subseteq Range(df2.columns))
        THEN [ok |-> FALSE, df |-> EmptyFrame]
        ELSE [ok |-> TRUE, df |-> CleanTown(DropNa(df2, CriticalFields))]

-----------------------------------------------------------------------------
(* The pipeline of one run, as operators on frames *)

Town(r) == r.c[TOWN].s
Hotels(r) == r.c[HOTELS].n
Restaurants(r) == r.c[RESTAURANTS].n
Tourism(r) == r.c[TOURISM].n

\* df["Town"].unique(), the options of the town selector.
Towns(df) == { Town(df.rows[i]) : i \in 1..Len(df.rows) }

SetMin(S) == CHOOSE x \in S : \A y \in S : x <= y

SetMax(S) == CHOOSE x \in S : \A y \in S : x >= y

\* int(df["Total number of restaurants"].min()) and .max(), the slider's ends.
SliderMin(df) == IntOf(SetMin({ Restaurants(df.rows[i]) : i \in 1..Len(df.rows) }))

SliderMax(df) == IntOf(SetMax({ Restaurants(df.rows[i]) : i \in 1..Len(df.rows) }))

\* The town filter without its emptiness test: isin is applied always, so an
\* empty selection keeps no row.
TownFilterAlways(frame, towns) ==
    [frame EXCEPT !.rows = SelectSeq(frame.rows, LAMBDA r : Town(r) \in towns)]

\* if selected_towns: filtered = filtered[filtered["Town"].isin(selected_towns)]
TownFilter(frame, towns) ==
    IF towns # {}
    THEN [frame EXCEPT !.rows = SelectSeq(frame.rows, LAMBDA r : Town(r) \in towns)]
    ELSE frame

\* The threshold filter with > written for >=.
ThresholdStrict(frame, minimum) ==
    [frame EXCEPT !.rows = SelectSeq(frame.rows, LAMBDA r : Restaurants(r) > 10 * minimum)]

\* The threshold filter comparing with the column's own min() instead of
\* min_restaurants, strictly.
ThresholdAboveOwnMin(frame, minimum) ==
    IF frame.rows = <<>> THEN frame
    ELSE [frame EXCEPT !.rows =
            SelectSeq(frame.rows,
                      LAMBDA r : Restaurants(r) >
                                   SetMin({ Restaurants(frame.rows[i]) : i \in 1..Len(frame.rows) }))]

\* filtered = filtered[filtered["Total number of restaurants"] >= min_restaurants]
ThresholdFilter(frame, minimum) ==
    [frame EXCEPT !.rows = SelectSeq(frame.rows, LAMBDA r : Restaurants(r) >= 10 * minimum)]

\* The "Apply Filters" block: the town filter, then the threshold filter.
Apply(frame, towns, minimum) == ThresholdFilter(TownFilter(frame, towns), minimum)

RECURSIVE SumOf(_, _)
SumOf(rows, col) ==
    IF rows = <<>> THEN 0 ELSE rows[1].c[col].n + SumOf(Tail(rows), col)

\* Round num/den (den > 0) to the nearest integer, a tie to the even one.
RoundHalfEven(num, den) ==
    LET q == num \div den
        r == num % den
    IN  IF 2 * r < den THEN q
        ELSE IF 2 * r > den THEN q + 1
        ELSE IF q % 2 = 0 THEN q ELSE q + 1

\* filtered["Town"].nunique()
NUnique(frame) == Cardinality(Towns(frame))

\* The hotel sum taken over distinct towns: one record per town, its first.
HotelsSumDistinctTowns(frame) ==
    IntOf(SumOf(SelectSeq(frame.rows,
                          LAMBDA r : \A i \in 1..Len(frame.rows) :
                                        Town(frame.rows[i]) = Town(r) =>
                                            frame.rows[i].idx >= r.idx),
                HOTELS))

\* int(filtered["Total number of hotels"].sum()), in whole hotels.
HotelsSum(frame) == IntOf(SumOf(frame.rows, HOTELS))

\* filtered["Tourism Index"].mean() as printed with two decimals (hundredths).
\* NaN for a frame with no row.
AvgTourism(frame) ==
    IF frame.rows = <<>> THEN NaN
    ELSE Num(RoundHalfEven(10 * SumOf(frame.rows, TOURISM), Len(frame.rows)))

KPIs(frame) ==
    [townCount |-> NUnique(frame),
     hotelsSum |-> HotelsSum(frame),
     avgTourismIndex |-> AvgTourism(frame)]

NoKPI == [townCount |-> 0, hotelsSum |-> 0, avgTourismIndex |-> NaN]

\* Whether row a sorts strictly before row b on the sort column.
KeyLess(a, b, by) ==
    IF by = TOWN THEN StrLess(Town(a), Town(b)) ELSE Hotels(a) < Hotels(b)

Perms(n) == { f \in [1..n -> 1..n] : \A i, j \in 1..n : f[i] = f[j] => i = j }

\* Whether rows, taken in the order p, are sorted on the column in the
\* direction asked.
Ordered(rows, p, by, asc) ==
    \A i \in 1..(Len(rows) - 1) :
        IF asc THEN ~KeyLess(rows[p[i + 1]], rows[p[i]], by)
        ELSE ~KeyLess(rows[p[i]], rows[p[i + 1]], by)

\* frame.sort_values(by=..., ascending=...): the orders it may return.  The
\* call leaves kind at its default, "quicksort", which pandas documents as
\* not stable: rows that tie on the column come out in any order.
SortValues(frame, by, asc) ==
    { [frame EXCEPT !.rows = [i \in 1..Len(frame.rows) |-> frame.rows[p[i]]]] :
        p \in { q \in Perms(Len(frame.rows)) : Ordered(frame.rows, q, by, asc) } }

\* The trendline argument chosen without looking at HAS_SM.
TrendIgnoringCapability(show, has_sm) == IF show THEN "ols" ELSE "None"

\* trend = "ols" if (show_trendline and HAS_SM) else None
Trend(show, has_sm) == IF show /\ has_sm THEN "ols" ELSE "None"

\* show_trendline and not HAS_SM: the st.info notice is shown.
Advisory(show, has_sm) == show /\ ~has_sm

\* to_csv with index left at its default, True: an unnamed first column
\* holding each row's label.
ToCsvWithIndex(frame) ==
    [header |-> <<"">> \o frame.columns,
     lines  |-> [i \in 1..Len(frame.rows) |->
                    <<Num(10 * frame.rows[i].idx)>> \o
                    [j \in 1..Len(frame.columns) |-> frame.rows[i].c[frame.columns[j]]]]]

\* frame.to_csv(index=False): a header line with the frame's columns, then
\* one line per row with its cells in column order.  A cell stands for its
\* text.
ToCsv(frame) ==
    [header |-> frame.columns,
     lines  |-> [i \in 1..Len(frame.rows) |->
                    [j \in 1..Len(frame.columns) |-> frame.rows[i].c[frame.columns[j]]]]]

NoCsv == [header |-> <<>>, lines |-> <<>>]

-----------------------------------------------------------------------------
(* State *)

VARIABLES
    remote,          \* the CSV file behind DATA_URL
    HAS_SM,          \* whether statsmodels could be imported
    cache,           \* st.cache_data's entries for load_data: {[url, value]}
    fetches,         \* pd.read_csv calls that returned the file
    lastLoad,        \* how this run's load_data call was served: "none", "miss", "hit"
    pc,              \* where the current run of the script is
    df,              \* the frame load_data returned to this run
    selected_towns,  \* the sidebar's values in this run
    min_restaurants,
    show_trendline,
    sort_metric,
    ascending,
    filtered,        \* the filtered view of this run
    rendered,        \* the elements this run has put on the page
    kpi,             \* the three metrics of the KPI row
    plot_df,         \* the bar chart's data
    trend,           \* the trendline argument given to px.scatter
    csv              \* the download button's data

vars == <<remote, HAS_SM, cache, fetches, lastLoad, pc, df, selected_towns, min_restaurants,
          show_trendline, sort_metric, ascending, filtered, rendered, kpi, plot_df,
          trend, csv>>

controls == <<selected_towns, min_restaurants, show_trendline, sort_metric, ascending>>

outputs == <<filtered, rendered, kpi, plot_df, trend, csv>>

\* What a run starts from: nothing loaded, the widgets not yet read, an
\* empty page.
FreshRun ==
    /\ df = EmptyFrame
    /\ selected_towns = {}
    /\ min_restaurants = 0
    /\ show_trendline = FALSE
    /\ sort_metric = HOTELS
    /\ ascending = FALSE
    /\ filtered = EmptyFrame
    /\ rendered = {}
    /\ kpi = NoKPI
    /\ plot_df = EmptyFrame
    /\ trend = "None"
    /\ csv = NoCsv

Init ==
    /\ remote \in RawTables
    /\ HAS_SM \in BOOLEAN
    /\ cache = {}
    /\ fetches = 0
    /\ lastLoad = "none"
    /\ pc = "load"
    /\ FreshRun

-----------------------------------------------------------------------------
(* Steps of one run *)

\* A cache whose lookup never finds an entry.
CachedNever(url) == {}

Cached(url) == { e \in cache : e.url = url }

\* df = load_data(DATA_URL) under @st.cache_data: a hit returns a copy of the
\* stored frame; a miss runs the body, which may fail in the fetch or in
\* dropna, and stores the frame only when the body returns.
LoadData ==
    /\ pc = "load"
    /\ IF Cached(DATA_URL) # {}
       THEN /\ df' = (CHOOSE e \in Cached(DATA_URL) : TRUE).value
            /\ lastLoad' = "hit"
            /\ pc' = "sidebar"
            /\ UNCHANGED <<cache, fetches>>
       ELSE \/ /\ pc' = "error"
               /\ lastLoad' = "miss"
               /\ UNCHANGED <<df, cache, fetches>>
            \/ /\ fetches < MaxFetches
               /\ fetches' = fetches + 1
               /\ lastLoad' = "miss"
               /\ LET r == load_data(remote) IN
                    IF r.ok
                    THEN /\ cache' = cache \cup {[url |-> DATA_URL, value |-> r.df]}
                         /\ df' = r.df
                         /\ pc' = "sidebar"
                    ELSE /\ pc' = "error"
                         /\ UNCHANGED <<df, cache>>
    /\ UNCHANGED <<remote, HAS_SM, controls, outputs>>

\* The sidebar: the user's values are read from the widgets.  With no row
\* left after cleaning, int(min()) of the empty column raises.
Sidebar ==
    /\ pc = "sidebar"
    /\ IF df.rows = <<>>
       THEN /\ pc' = "error"
            /\ UNCHANGED controls
       ELSE /\ selected_towns' \in SUBSET Towns(df)
            /\ min_restaurants' \in SliderMin(df)..SliderMax(df)
            /\ show_trendline' \in BOOLEAN
            /\ sort_metric' \in {HOTELS, TOWN}
            /\ ascending' \in BOOLEAN
            /\ pc' = "filter"
    /\ UNCHANGED <<remote, HAS_SM, cache, fetches, lastLoad, df, outputs>>

ApplyFilters ==
    /\ pc = "filter"
    /\ filtered' = Apply(df, selected_towns, min_restaurants)
    /\ pc' = "guard"
    /\ UNCHANGED <<remote, HAS_SM, cache, fetches, lastLoad, df, controls,
                   rendered, kpi, plot_df, trend, csv>>

\* The guard without its st.stop(): the warning is shown and the run goes on.
GuardWithoutStop ==
    /\ pc = "guard"
    /\ IF filtered.rows = <<>>
       THEN rendered' = {"title", "warning"}
       ELSE rendered' = {"title", "description"}
    /\ pc' = "kpi"
    /\ UNCHANGED <<remote, HAS_SM, cache, fetches, lastLoad, df, controls,
                   filtered, kpi, plot_df, trend, csv>>

\* Guard: no data after filters -> title, warning, st.stop().  Otherwise the
\* title and the description are shown and the run goes on.
Guard ==
    /\ pc = "guard"
    /\ IF filtered.rows = <<>>
       THEN /\ rendered' = {"title", "warning"}
            /\ pc' = "stopped"
       ELSE /\ rendered' = {"title", "description"}
            /\ pc' = "kpi"
    /\ UNCHANGED <<remote, HAS_SM, cache, fetches, lastLoad, df, controls,
                   filtered, kpi, plot_df, trend, csv>>

KPIRow ==
    /\ pc = "kpi"
    /\ kpi' = KPIs(filtered)
    /\ rendered' = rendered \cup {"kpi"}
    /\ pc' = "bar"
    /\ UNCHANGED <<remote, HAS_SM, cache, fetches, lastLoad, df, controls,
                   filtered, plot_df, trend, csv>>

BarChart ==
    /\ pc = "bar"
    /\ plot_df' \in SortValues(filtered, sort_metric, ascending)
    /\ rendered' = rendered \cup {"bar"}
    /\ pc' = "scatter"
    /\ UNCHANGED <<remote, HAS_SM, cache, fetches, lastLoad, df, controls,
                   filtered, kpi, trend, csv>>

ScatterPlot ==
    /\ pc = "scatter"
    /\ trend' = Trend(show_trendline, HAS_SM)
    /\ rendered' = rendered \cup {"scatter"} \cup
                     (IF Advisory(show_trendline, HAS_SM) THEN {"info"} ELSE {})
    /\ pc' = "download"
    /\ UNCHANGED <<remote, HAS_SM, cache, fetches, lastLoad, df, controls,
                   filtered, kpi, plot_df, csv>>

Download ==
    /\ pc = "download"
    /\ csv' = ToCsv(filtered)
    /\ rendered' = rendered \cup {"download"}
    /\ pc' = "done"
    /\ UNCHANGED <<remote, HAS_SM, cache, fetches, lastLoad, df, controls,
                   filtered, kpi, plot_df, trend>>

\* The next interaction: Streamlit runs the script again from the top, on
\* an empty page; the cache and the imported modules stay.
Rerun ==
    /\ pc \in {"done", "stopped", "error"}
    /\ pc' = "load"
    /\ lastLoad' = "none"
    /\ df' = EmptyFrame
    /\ selected_towns' = {}
    /\ min_restaurants' = 0
    /\ show_trendline' = FALSE
    /\ sort_metric' = HOTELS
    /\ ascending' = FALSE
    /\ filtered' = EmptyFrame
    /\ rendered' = {}
    /\ kpi' = NoKPI
    /\ plot_df' = EmptyFrame
    /\ trend' = "None"
    /\ csv' = NoCsv
    /\ UNCHANGED <<remote, HAS_SM, cache, fetches>>

Next ==
    \/ LoadData
    \/ Sidebar
    \/ ApplyFilters
    \/ Guard
    \/ KPIRow
    \/ BarChart
    \/ ScatterPlot
    \/ Download
    \/ Rerun

Spec == Init /\ [][Next]_vars

-----------------------------------------------------------------------------
(* Properties *)

\* Where a run is once each block of the script has been executed.
PastFilter == pc \in {"guard", "stopped", "kpi", "bar", "scatter", "download", "done"}

PastGuard == pc \in {"stopped", "kpi", "bar", "scatter", "download", "done"}

PastKPI == pc \in {"bar", "scatter", "download", "done"}

PastBar == pc \in {"scatter", "download", "done"}

PastScatter == pc \in {"download", "done"}

RECURSIVE IsSubSeq(_, _)
IsSubSeq(s, t) ==
    IF s = <<>> THEN TRUE
    ELSE IF t = <<>> THEN FALSE
    ELSE IF Head(s) = Head(t) THEN IsSubSeq(Tail(s), Tail(t))
    ELSE IsSubSeq(s, Tail(t))

\* A raw row the cleaning is said to keep: its three numeric cells are
\* numbers and its town is neither missing nor empty once trimmed.
Complete(raw) ==
    /\ ~ParseNumeric(raw[HOTELS]).na
    /\ ~ParseNumeric(raw[RESTAURANTS]).na
    /\ ~ParseNumeric(raw[TOURISM]).na
    /\ raw[TOWN] \notin NaValues
    /\ StrStrip(raw[TOWN]) # <<>>

\* C1: the frame load_data returns holds exactly the raw rows that have a
\* number in hotels, restaurants and tourism index and a town that is not
\* empty after trimming, in source order, each with its town trimmed.
C1_CleanedIsCompleteRows ==
    pc = "sidebar" =>
        LET kept == SelectSeq([i \in 1..Len(remote.rows) |-> i],
                              LAMBDA i : Complete(remote.rows[i]))
        IN  /\ Len(df.rows) = Len(kept)
            /\ \A j \in 1..Len(kept) :
                  /\ df.rows[j].idx = kept[j] - 1
                  /\ Town(df.rows[j]) = StrStrip(remote.rows[kept[j]][TOWN])
                  /\ Town(df.rows[j]) # <<>>

\* C2: with no town selected the filtered view is exactly the records of
\* the dataset with restaurants >= minRestaurants, whatever their town; with
\* towns selected every record kept has its town among them.
C2_EmptySelectionPassesThrough ==
    PastFilter =>
        /\ selected_towns = {} =>
              filtered.rows =
                 SelectSeq(df.rows, LAMBDA r : Restaurants(r) >= 10 * min_restaurants)
        /\ selected_towns # {} =>
              \A i \in 1..Len(filtered.rows) : Town(filtered.rows[i]) \in selected_towns

\* No town is selected, the dataset has two towns, and only the threshold
\* removed a record.
C2_Witness ==
    /\ pc = "guard"
    /\ selected_towns = {}
    /\ Cardinality(Towns(df)) = 2
    /\ Len(filtered.rows) = 1

\* C3: filtering the filtered view again with the same selection and the
\* same threshold gives the filtered view.
C3_FilterIdempotent ==
    PastFilter => Apply(filtered, selected_towns, min_restaurants) = filtered

\* Towns are selected and the filters removed one record of two.
C3_Witness ==
    /\ pc = "guard"
    /\ selected_towns # {}
    /\ Len(df.rows) = 2
    /\ Len(filtered.rows) = 1

\* C4: the filtered view is a subsequence of the dataset (same records, same
\* relative order), every record of it has restaurants >= minRestaurants,
\* and a record at exactly minRestaurants that passes the town filter is
\* kept.
C4_FilteredSubsequenceAboveThreshold ==
    PastFilter =>
        /\ filtered.columns = df.columns
        /\ IsSubSeq(filtered.rows, df.rows)
        /\ \A i \in 1..Len(filtered.rows) :
              Restaurants(filtered.rows[i]) >= 10 * min_restaurants
        /\ \A i \in 1..Len(df.rows) :
              (/\ Restaurants(df.rows[i]) = 10 * min_restaurants
               /\ (selected_towns = {} \/ Town(df.rows[i]) \in selected_towns))
              => df.rows[i] \in Range(filtered.rows)

\* A record sits exactly on the threshold and is kept while another record
\* is removed.
C4_Witness ==
    /\ pc = "guard"
    /\ Len(filtered.rows) < Len(df.rows)
    /\ \E i \in 1..Len(filtered.rows) :
          Restaurants(filtered.rows[i]) = 10 * min_restaurants

\* C5: the bar chart's data is the filtered view sorted on the sort column in
\* the direction asked: adjacent records are in order, and records that tie
\* on the column keep the relative order they have in the filtered view.
C5_BarSortStable ==
    PastBar =>
        /\ Len(plot_df.rows) = Len(filtered.rows)
        /\ Range(plot_df.rows) = Range(filtered.rows)
        /\ \A i \in 1..(Len(plot_df.rows) - 1) :
              IF ascending
              THEN ~KeyLess(plot_df.rows[i + 1], plot_df.rows[i], sort_metric)
              ELSE ~KeyLess(plot_df.rows[i], plot_df.rows[i + 1], sort_metric)
        /\ \A i, j \in 1..Len(plot_df.rows) :
              (/\ i < j
               /\ ~KeyLess(plot_df.rows[i], plot_df.rows[j], sort_metric)
               /\ ~KeyLess(plot_df.rows[j], plot_df.rows[i], sort_metric))
              => plot_df.rows[i].idx < plot_df.rows[j].idx

\* C6, as stated: the export's header is town, hotels, restaurants, tourism
\* index in that order and nothing else, and each record of the filtered
\* view gives one line with these four fields, in the view's order.
C6_ExportFourFields ==
    pc = "done" =>
        /\ csv.header = <<TOWN, HOTELS, RESTAURANTS, TOURISM>>
        /\ Len(csv.lines) = Len(filtered.rows)
        /\ \A i \in 1..Len(csv.lines) :
              csv.lines[i] = <<filtered.rows[i].c[TOWN], filtered.rows[i].c[HOTELS],
                               filtered.rows[i].c[RESTAURANTS], filtered.rows[i].c[TOURISM]>>

\* C6, amended: the export's header is the source file's columns in the
\* source's order (the four fields among them), and each record of the
\* filtered view gives one line, in the view's order, holding the record's
\* cell for each header column and no row label.
C6_ExportSourceColumns ==
    pc = "done" =>
        /\ csv.header = remote.header
        /\ {TOWN, HOTELS, RESTAURANTS, TOURISM} \subseteq Range(csv.header)
        /\ Len(csv.lines) = Len(filtered.rows)
        /\ \A i \in 1..Len(csv.lines) :
              /\ Len(csv.lines[i]) = Len(remote.header)
              /\ \A j \in 1..Len(remote.header) :
                    csv.lines[i][j] = filtered.rows[i].c[remote.header[j]]

\* The source has an additional column and its own column order, and a
\* view of two records was exported.
C6_Witness ==
    /\ pc = "done"
    /\ EXTRA \in Range(remote.header)
    /\ Len(filtered.rows) = 2
    /\ Len(csv.lines) = 2

\* C7: the scatter chart gets a trendline exactly when it is requested and
\* statsmodels is available; the notice is shown exactly when it is requested
\* and statsmodels is not; with the notice the scatter chart is still drawn
\* and the run does not fail.
C7_TrendlineAndAdvisory ==
    /\ PastScatter =>
          /\ "scatter" \in rendered
          /\ (trend = "ols") <=> (show_trendline /\ HAS_SM)
          /\ ("info" \in rendered) <=> (show_trendline /\ ~HAS_SM)
    /\ "info" \in rendered => ("scatter" \in rendered /\ pc \in {"download", "done"})
    /\ pc = "error" => rendered = {}

\* The trendline was requested without statsmodels: the run is over, with
\* the notice and the chart on the page and no trendline.
C7_Witness ==
    /\ pc = "done"
    /\ show_trendline
    /\ ~HAS_SM
    /\ rendered = {"title", "description", "kpi", "bar", "scatter", "info", "download"}
    /\ trend = "None"

\* C8: when the filters leave no record the run shows the warning, shows no
\* KPI, bar chart or scatter chart, and ends at st.stop() (not in an error),
\* from where only the next interaction follows; the KPI row is only ever
\* computed on a filtered view with at least one record.
C8_EmptyResultSkipsRendering ==
    /\ [](/\ (PastGuard /\ filtered.rows = <<>>) =>
                (/\ pc = "stopped"
                 /\ "warning" \in rendered
                 /\ rendered \cap {"kpi", "bar", "scatter", "info", "download"} = {})
          /\ "kpi" \in rendered => (filtered.rows # <<>> /\ ~kpi.avgTourismIndex.na)
          /\ "warning" \in rendered => pc = "stopped")
    /\ [][pc = "stopped" => (pc' = "load" /\ rendered' = {})]_vars

\* A dataset with records was filtered down to nothing and the run stopped
\* on the warning.
C8_Witness ==
    /\ pc = "stopped"
    /\ df.rows # <<>>
    /\ filtered.rows = <<>>
    /\ rendered = {"title", "warning"}

\* C9: once load_data has returned for the URL, the cache holds that one
\* entry for good: no later step fetches again or changes the entry, every
\* later run works on the cached frame, and the file was fetched once.
C9_LoadedOnceNeverInvalidated ==
    /\ [](/\ Cardinality(cache) <= 1
          /\ cache # {} => fetches = 1
          /\ pc \notin {"load", "error"} =>
                (cache # {} /\ \A e \in cache : e.url = DATA_URL /\ e.value = df)
          /\ lastLoad = "hit" => fetches = 1)
    /\ [][cache # {} => (cache' = cache /\ fetches' = fetches)]_vars

\* A later run was served from the cache and went through filtering,
\* sorting and export; the file was fetched once.
C9_Witness ==
    /\ lastLoad = "hit"
    /\ pc = "done"
    /\ fetches = 1
    /\ Len(filtered.rows) < Len(df.rows)

\* C10, as stated: townCount is the number of distinct towns of the view
\* and hotelsSum is the arithmetic sum of hotels over all its records.
C10_KpiExactSum ==
    PastKPI =>
        /\ kpi.townCount = Cardinality({ Town(filtered.rows[i]) : i \in 1..Len(filtered.rows) })
        /\ 10 * kpi.hotelsSum = SumOf(filtered.rows, HOTELS)

\* C10, amended: townCount is the number of distinct towns of the view;
\* hotelsSum is the sum of hotels over all its records (each record of a
\* repeated town counted) truncated toward zero to a whole number, which is
\* the sum itself when every record's hotels is a whole number.
C10_KpiTruncatedSum ==
    PastKPI =>
        LET total == SumOf(filtered.rows, HOTELS) IN
        /\ kpi.townCount = Cardinality({ Town(filtered.rows[i]) : i \in 1..Len(filtered.rows) })
        /\ total >= 0 => (10 * kpi.hotelsSum <= total /\ total < 10 * kpi.hotelsSum + 10)
        /\ total <= 0 => (10 * kpi.hotelsSum >= total /\ total > 10 * kpi.hotelsSum - 10)
        /\ (\A i \in 1..Len(filtered.rows) : Hotels(filtered.rows[i]) % 10 = 0)
              => 10 * kpi.hotelsSum = total

\* One town occurs in two records of the view and the hotel total is not a
\* whole number.
C10_Witness ==
    /\ pc = "bar"
    /\ Len(filtered.rows) = 2
    /\ kpi.townCount = 1
    /\ SumOf(filtered.rows, HOTELS) % 10 # 0

=============================================================================
